---- MODULE Spec2Model ----
(***************************************************************************)
(* Model of custom_components/twinkly/light.py: the TwinklyLight entity,   *)
(* its token authentication (auth), the authenticated request dispatch     *)
(* with its one-shot 401 retry (send_request), the polling refresh         *)
(* (async_update) and the commands (async_turn_on, async_turn_off,         *)
(* set_brightness).                                                        *)
(*                                                                         *)
(* The coroutines run on an asyncio loop: the code between two network     *)
(* awaits is atomic.  An action of the model is therefore either the start *)
(* of an operation, up to the first HTTP call it issues, or the arrival of *)
(* the answer to the HTTP call in flight followed by all the code that     *)
(* runs until the next HTTP call is issued or the operation ends.          *)
(*                                                                         *)
(* _brightness holds a Python float, value * 2.55.  The model keeps it in  *)
(* hundredths (HUNDREDTHS units per 1.0), where the product is exact; the  *)
(* double differs from it by less than 2^-44 and never exceeds 255.0.      *)
(***************************************************************************)
EXTENDS Integers, Sequences, FiniteSets, TLC

VARIABLES
    _token,         \* self._token: None or the verified token
    _is_on,         \* self._is_on
    _brightness,    \* self._brightness, in hundredths
    _is_available,  \* self._is_available
    _attributes,    \* self._attributes: key -> value
    task,           \* per coroutine: the operation it runs and where it is suspended
    log,            \* per coroutine: the HTTP calls answered so far in its operation
    before,         \* per coroutine: the cached fields when its operation started
    dev_mode        \* the device: its current led mode

vars == <<_token, _is_on, _brightness, _is_available, _attributes,
          task, log, before, dev_mode>>

----------------------------------------------------------------------------
\* Bounds of the model

\* Tokens the device's login may hand out: 1..MaxToken
MaxToken == 2
\* The device reports (and is set to) the brightness values k * 100 / Levels, k in 0..Levels
Levels == 1

----------------------------------------------------------------------------
\* Constants of the program

None == 0
ATTR_HOST == "host"
ATTR_NAME == "device_name"
HIDDEN_ATTR == {"code", "copyright", "mac"}
EP_DEVICE_INFO == "gestalt"
EP_MODE == "led/mode"
EP_BRIGHTNESS == "led/out/brightness"
EP_LOGIN == "login"
EP_VERIFY == "verify"
\* send_request(..., retry: int=1)
DefaultRetry == 1
\* the literal 2.55 of the two brightness conversions, in hundredths
FACTOR == 255
HUNDREDTHS == 100
\* get_brigthness: "... else 100"
FULL == 100

\* The configured host (config[CONF_HOST])
HOST == "192.168.1.20"

----------------------------------------------------------------------------
\* The environment: who calls, what the device answers

Poller == "poller"
Caller == "caller"
Tasks == {Poller, Caller}

Tokens == 1..MaxToken
DeviceValues == {(k * FULL) \div Levels : k \in 0..Levels}
\* kwargs[ATTR_BRIGHTNESS] of async_turn_on, on the platform's 0..255 scale; NoArg: not supplied
NoArg == -1
TurnOnArgs == {0, 2, 3, 50, 255}
DevModes == {"off", "movie"}

\* aiohttp outcomes of one HTTP call with raise_for_status: a 2xx answer, a
\* ClientResponseError with code 401, a ClientResponseError with another code
\* (also the ContentTypeError of response.json()), or an error that is no
\* ClientResponseError (timeout, connection failure).
Statuses == {"ok", "e401", "e500", "timeout"}
HttpErrors == {"e401", "e500"}

\* JSON bodies.  kind "array" is a body that is valid JSON but no object.
Object(j) == [kind |-> "object", json |-> j]
NotAnObject == [kind |-> "array", json |-> [code |-> "1000"]]
ErrorDoc == [code |-> "1104"]
NoBody == [kind |-> "none", json |-> [code |-> "0"]]

GestaltDocs ==
    { [device_name |-> "Tree", code |-> "1000", copyright |-> "LEDWORKS 2018", mac |-> "5c:cf:7f:00:00:01"],
      [device_name |-> "Star", code |-> "1000", uuid |-> "00000000-0000"],
      [code |-> "1000", mac |-> "5c:cf:7f:00:00:01"] }

LoginBodies == {Object([authentication_token |-> tk]) : tk \in Tokens} \cup {Object(ErrorDoc)}

----------------------------------------------------------------------------
\* The calls of the entity: which endpoint, which payload (None: a GET)

NoData == [json |-> "null"]
CHALLENGE == [challenge |-> "Uswkc0TgJDmwl5jrsyaYSwY8fqeLJ1ihBLAwYcuADEo="]

set_is_on(is_on) ==
    [fn |-> "set_is_on", ep |-> EP_MODE, data |-> [mode |-> IF is_on THEN "movie" ELSE "off"]]
set_brightness(brightness) ==
    [fn |-> "set_brightness", ep |-> EP_BRIGHTNESS, data |-> [value |-> brightness, type |-> "A"]]
get_device_info == [fn |-> "get_device_info", ep |-> EP_DEVICE_INFO, data |-> NoData]
get_is_on == [fn |-> "get_is_on", ep |-> EP_MODE, data |-> NoData]
get_brigthness == [fn |-> "get_brigthness", ep |-> EP_BRIGHTNESS, data |-> NoData]

\* method = "GET" if data is None else "POST"
Method(data) == IF data = NoData THEN "GET" ELSE "POST"

\* What the device may answer with a 2xx to the call
Bodies(call) ==
    IF Method(call.data) = "POST" THEN {NoBody}
    ELSE IF call.fn = "get_is_on" THEN {Object([mode |-> dev_mode]), Object(ErrorDoc)}
    ELSE IF call.fn = "get_brigthness"
         THEN {Object([value |-> v, mode |-> m]) : v \in DeviceValues, m \in {"enabled", "disabled"}}
              \cup {Object(ErrorDoc)}
    ELSE {Object(d) : d \in GestaltDocs} \cup {NotAnObject}

----------------------------------------------------------------------------
\* Pure functions of the entity

\* Mutant: the mode is compared with "on"
is_on_of_literal(body) == body.json.mode = "on"

\* get_is_on: (await self.send_request(EP_MODE))['mode'] != "off"
is_on_of(body) == body.json.mode # "off"

\* Mutant: the reported value is taken also when brightness control is disabled
brightness_of_any_mode(body) == body.json.value

\* get_brigthness: int(brightness['value']) if brightness['mode'] == "enabled" else 100
brightness_of(body) == IF body.json.mode = "enabled" THEN body.json.value ELSE FULL

\* async_update: (await self.get_brigthness()) * 2.55, in hundredths
ToHass(percent) == percent * FACTOR

\* Mutant: the quotient is rounded to the nearest integer
ToPercentRounded(arg) == (arg * HUNDREDTHS + 127) \div FACTOR

\* async_turn_on: int(int(kwargs[ATTR_BRIGHTNESS]) / 2.55); int() truncates, and
\* the double quotient truncates to the exact quotient for every 0..255
ToPercent(arg) == (arg * HUNDREDTHS) \div FACTOR

\* The configured name (config.get(CONF_NAME)): absent, empty, or a name.  It is
\* assigned once, in __init__, and never again, so it is an argument of name
NoName == "<None>"
Names == {NoName, "", "Xmas"}

\* Python truth of self._name: None and the empty string are false
Truthy(configured) == configured \notin {NoName, ""}

DEFAULT_NAME == "Twinkly light"

\* name: self._name if self._name else self._attributes[ATTR_NAME]
\*       if ATTR_NAME in self._attributes else "Twinkly light"
name(configured, attrs) ==
    IF Truthy(configured) THEN configured
    ELSE IF ATTR_NAME \in DOMAIN attrs THEN attrs[ATTR_NAME]
    ELSE DEFAULT_NAME

\* Mutant: 'mac' is not hidden
VisibleWithMac(key) == key \notin {"code", "copyright"}

\* async_update: if key not in HIDDEN_ATTR
Visible(key) == key \notin HIDDEN_ATTR

\* Mutant: a key that is already there keeps its value
MergeKeepOld(attrs, doc) ==
    LET shown == {k \in DOMAIN doc : Visible(k)}
    IN  [k \in (DOMAIN attrs) \cup shown |-> IF k \in DOMAIN attrs THEN attrs[k] ELSE doc[k]]

\* Mutant: the attributes are replaced by the host and the fetched document
MergeReplace(attrs, doc) ==
    LET shown == {k \in DOMAIN doc : Visible(k)}
    IN  [k \in {ATTR_HOST} \cup shown |-> IF k \in shown THEN doc[k] ELSE attrs[k]]

\* async_update: for key,value in device_info.items(): ... self._attributes[key] = value
Merge(attrs, doc) ==
    LET shown == {k \in DOMAIN doc : Visible(k)}
    IN  [k \in (DOMAIN attrs) \cup shown |-> IF k \in shown THEN doc[k] ELSE attrs[k]]

\* Whether the code that consumes the answer of the call runs without raising:
\* a POST's body is not read; the getters index the body; async_update calls .items()
Parses(call, body) ==
    IF Method(call.data) = "POST" THEN TRUE
    ELSE IF body.kind # "object" THEN FALSE
    ELSE IF call.fn = "get_is_on" THEN "mode" \in DOMAIN body.json
    ELSE IF call.fn = "get_brigthness"
         THEN /\ "mode" \in DOMAIN body.json
              /\ body.json.mode = "enabled" => "value" \in DOMAIN body.json
    ELSE TRUE

\* The cached fields of the entity, as one record
Cache == [_is_on |-> _is_on, _brightness |-> _brightness,
          _is_available |-> _is_available, _attributes |-> _attributes]

\* Mutant: set_is_on caches the state it has just written
ApplyOptimistic(call, body, cache) ==
    IF call.fn = "get_is_on" THEN [cache EXCEPT !._is_on = is_on_of(body)]
    ELSE IF call.fn = "get_brigthness"
         THEN [cache EXCEPT !._brightness = ToHass(brightness_of(body))]
    ELSE IF call.fn = "get_device_info"
         THEN [cache EXCEPT !._attributes = Merge(cache._attributes, body.json)]
    ELSE IF call.fn = "set_is_on" THEN [cache EXCEPT !._is_on = call.data.mode # "off"]
    ELSE cache

\* What the caller of send_request assigns from the result of the call: the
\* three reads of async_update assign their field, set_is_on and set_brightness
\* assign nothing
Apply(call, body, cache) ==
    IF call.fn = "get_is_on" THEN [cache EXCEPT !._is_on = is_on_of(body)]
    ELSE IF call.fn = "get_brigthness"
         THEN [cache EXCEPT !._brightness = ToHass(brightness_of(body))]
    ELSE IF call.fn = "get_device_info"
         THEN [cache EXCEPT !._attributes = Merge(cache._attributes, body.json)]
    ELSE cache

\* async_update, after the three reads: self._is_available = True
Epilogue(op, cache) ==
    IF op = "async_update" THEN [cache EXCEPT !._is_available = TRUE] ELSE cache

\* Mutant: only the HTTP errors are caught (except ClientResponseError)
CaughtHttpOnly(err) == err \in HttpErrors

\* async_update: the bare "except:" catches every exception
Caught(err) == TRUE

\* Mutant: the budget is compared with >=
ShouldRetryAtZero(err, retry) == err = "e401" /\ retry >= 0

\* Mutant: a 401 is retried whatever the budget
ShouldRetryForever(err, retry) == err = "e401"

\* Mutant: every ClientResponseError is retried
ShouldRetryAnyHttpError(err, retry) == err \in HttpErrors /\ retry > 0

\* send_request: if err.code == 401 and retry > 0 (inside except ClientResponseError)
ShouldRetry(err, retry) == err = "e401" /\ retry > 0

\* Mutant: the "if brightness == 0" branch is missing
TurnOnPlanNoZero(arg) ==
    IF arg # NoArg
    THEN <<set_brightness(ToPercent(arg)), set_is_on(TRUE)>>
    ELSE <<set_is_on(TRUE)>>

\* The calls async_turn_on awaits, in order
TurnOnPlan(arg) ==
    IF arg # NoArg
    THEN IF ToPercent(arg) = 0
         THEN <<set_is_on(FALSE)>>
         ELSE <<set_brightness(ToPercent(arg)), set_is_on(TRUE)>>
    ELSE <<set_is_on(TRUE)>>

\* Mutant: the brightness is read before the mode
UpdatePlanSwapped == <<get_brigthness, get_is_on, get_device_info>>

\* The calls async_update awaits, in order
UpdatePlan == <<get_is_on, get_brigthness, get_device_info>>

----------------------------------------------------------------------------
\* Where a coroutine is

\* op: the operation; arg: its brightness argument; todo: the calls it still has to
\* make, the current one first; retry: the retry budget of the current send_request;
\* at: the HTTP call in flight; hdr: the X-Auth-Token header of that call;
\* base: the length of the log when the current send_request was entered;
\* issued: the token of the last login answer, while the operation runs;
\* err: what the last send_request (or the reading of its result) raised;
\* outcome: how the operation ended; reported: the mode of the brightness answer read;
\* fetched: the device-info document the refresh merged; commanded: the power state
\* the device was last told to take, by a command that succeeded, while nothing
\* else has touched the device since
NoDoc == [code |-> "0"]

IdleCtx ==
    [op |-> "none", arg |-> NoArg, todo |-> <<>>, retry |-> 0, at |-> "idle", hdr |-> None,
     base |-> 0, issued |-> None, err |-> "none", outcome |-> "none", reported |-> "none",
     fetched |-> NoDoc, commanded |-> "none"]

NewCtx(op, arg, todo) == [IdleCtx EXCEPT !.op = op, !.arg = arg, !.todo = todo]

Idle(t) == task[t].at \in {"idle", "done"}
Quiet == \A t \in Tasks : Idle(t)

\* Mutant: a coroutine that has already sent a request reuses the header of that request
send_request_stale(tok, c, retry) ==
    IF tok = None
    THEN [c EXCEPT !.retry = retry, !.at = "login", !.hdr = None]
    ELSE [c EXCEPT !.retry = retry, !.at = "request", !.hdr = IF c.hdr # None THEN c.hdr ELSE tok]

\* send_request, from its entry to its first await: with no token held it awaits
\* auth(), whose first call is the login; else it sends the request with the token
send_request(tok, c, retry) ==
    IF tok = None
    THEN [c EXCEPT !.retry = retry, !.at = "login", !.hdr = None]
    ELSE [c EXCEPT !.retry = retry, !.at = "request", !.hdr = tok]

\* auth, after the login answered: the verify call carries the local token
Verify(c, token) == [c EXCEPT !.at = "verify", !.hdr = token, !.issued = token]

\* send_request, after auth returned: headers = {AUTH_HEADER: self._token}
Request(c, tok) == [c EXCEPT !.at = "request", !.hdr = tok]

\* Mutant: the token is stored whatever the verify call answers
auth_token_unverified(st, token, tok) == token

\* auth: self._token after the verify call was answered with st (the token is
\* assigned only on the line after the verify call, which raises on failure)
auth_token(st, token, tok) == IF st = "ok" THEN token ELSE tok

\* The power state an operation that returned has left the device in: async_turn_off
\* and an async_turn_on whose brightness converts to 0 switch it off, any other
\* async_turn_on switches it on; the other operations leave it as it was (cur)
Commanded(op, arg, cur) ==
    IF op = "async_turn_off" THEN "off"
    ELSE IF op = "async_turn_on"
         THEN IF arg # NoArg /\ ToPercent(arg) = 0 THEN "off" ELSE "on"
    ELSE IF op = "async_update" THEN cur
    ELSE "none"

\* What a refresh that starts now follows: the command that has just returned
Pending(op) ==
    LET told == {u \in Tasks : /\ task[u].at = "done"
                               /\ task[u].op \in {"async_turn_on", "async_turn_off"}
                               /\ task[u].commanded # "none"}
    IN  IF op = "async_update" /\ told # {}
        THEN task[CHOOSE u \in told : TRUE].commanded
        ELSE "none"

Done(c, err, outcome) ==
    [c EXCEPT !.at = "done", !.hdr = None, !.issued = None, !.err = err, !.outcome = outcome]

\* Mutant: the commands swallow the exception as async_update does
OnRaiseSwallowed(c, err, cache) ==
    [ctx |-> Done(c, err, "returned"), cache |-> [cache EXCEPT !._is_available = FALSE]]

\* An exception leaves send_request (or the code reading its result): async_update
\* catches it and marks the entity unavailable, the commands let it propagate
OnRaise(c, err, cache) ==
    IF c.op = "async_update" /\ Caught(err)
    THEN [ctx |-> Done(c, err, "returned"), cache |-> [cache EXCEPT !._is_available = FALSE]]
    ELSE [ctx |-> Done(c, err, "raised"), cache |-> cache]

\* send_request returned body: the caller reads it, assigns, and goes on to its
\* next call, or ends
OnReturn(c, body, cache, tok, n) ==
    LET call == Head(c.todo)
        rest == Tail(c.todo)
        c2 == [c EXCEPT !.todo = rest,
                        !.reported = IF call.fn = "get_brigthness" THEN body.json.mode ELSE @,
                        !.fetched = IF call.fn = "get_device_info" THEN body.json ELSE @,
                        !.commanded = IF rest = <<>> THEN Commanded(c.op, c.arg, @) ELSE @]
    IN  IF ~Parses(call, body) THEN OnRaise(c, "keyerror", cache)
        ELSE IF rest = <<>>
             THEN [ctx |-> Done(c2, "none", "returned"),
                   cache |-> Epilogue(c.op, Apply(call, body, cache))]
             ELSE [ctx |-> send_request(tok, [c2 EXCEPT !.base = n], DefaultRetry),
                   cache |-> Apply(call, body, cache)]

SetCache(cache) ==
    /\ _is_on' = cache._is_on
    /\ _brightness' = cache._brightness
    /\ _is_available' = cache._is_available
    /\ _attributes' = cache._attributes

Entry(ep, data, status) == [ep |-> ep, data |-> data, status |-> status]

\* The status the log keeps: a 2xx whose body the code cannot read is "malformed"
Logged(st, readable) == IF st = "ok" /\ ~readable THEN "malformed" ELSE st

----------------------------------------------------------------------------
\* The operations

Init ==
    /\ _token = None
    /\ _is_on = FALSE
    /\ _brightness = 0
    /\ _is_available = FALSE
    /\ _attributes = (ATTR_HOST :> HOST)
    /\ task = [t \in Tasks |-> IdleCtx]
    /\ log = [t \in Tasks |-> <<>>]
    /\ before = [t \in Tasks |-> [_is_on |-> FALSE, _brightness |-> 0, _is_available |-> FALSE,
                                  _attributes |-> (ATTR_HOST :> HOST)]]
    /\ dev_mode \in DevModes

\* Coroutine t starts an operation; the history of the coroutines at rest is dropped
Start(t, c) ==
    /\ Idle(t)
    /\ task' = [u \in Tasks |-> IF u = t
                                THEN send_request(_token, [c EXCEPT !.commanded = Pending(c.op)],
                                                  DefaultRetry)
                                ELSE IF Idle(u) THEN IdleCtx ELSE task[u]]
    /\ log' = [u \in Tasks |-> IF u = t \/ Idle(u) THEN <<>> ELSE log[u]]
    /\ before' = [u \in Tasks |-> IF u = t \/ Idle(u) THEN Cache ELSE before[u]]
    /\ UNCHANGED <<_token, _is_on, _brightness, _is_available, _attributes, dev_mode>>

async_update(t) == Start(t, NewCtx("async_update", NoArg, UpdatePlan))

async_turn_on(t) ==
    \E arg \in TurnOnArgs \cup {NoArg} : Start(t, NewCtx("async_turn_on", arg, TurnOnPlan(arg)))

async_turn_off(t) == Start(t, NewCtx("async_turn_off", NoArg, <<set_is_on(FALSE)>>))

\* set_brightness called on its own
set_brightness_call(t) ==
    \E b \in DeviceValues : Start(t, NewCtx("set_brightness", NoArg, <<set_brightness(b)>>))

\* auth: the login call is answered
login_response(t) ==
    LET c == task[t] IN
    /\ c.at = "login"
    /\ \E st \in Statuses : \E body \in (IF st = "ok" THEN LoginBodies ELSE {NoBody}) :
        LET good == st = "ok" /\ "authentication_token" \in DOMAIN body.json
            r == OnRaise(c, IF st = "ok" THEN "keyerror" ELSE st, Cache)
        IN  /\ log' = [log EXCEPT ![t] = Append(@, Entry(EP_LOGIN, CHALLENGE, Logged(st, good)))]
            /\ IF good
               THEN /\ task' = [task EXCEPT ![t] = Verify(c, body.json.authentication_token)]
                    /\ UNCHANGED <<_is_on, _brightness, _is_available, _attributes>>
               ELSE /\ task' = [task EXCEPT ![t] = r.ctx]
                    /\ SetCache(r.cache)
    /\ UNCHANGED <<_token, before, dev_mode>>

\* auth: the verify call is answered
verify_response(t) ==
    LET c == task[t] IN
    /\ c.at = "verify"
    /\ \E st \in Statuses :
        LET r == OnRaise(c, st, Cache)
        IN  /\ log' = [log EXCEPT ![t] = Append(@, Entry(EP_VERIFY, NoData, st))]
            /\ _token' = auth_token(st, c.hdr, _token)
            /\ IF st = "ok"
               THEN /\ task' = [task EXCEPT ![t] = Request(c, _token')]
                    /\ UNCHANGED <<_is_on, _brightness, _is_available, _attributes>>
               ELSE /\ task' = [task EXCEPT ![t] = r.ctx]
                    /\ SetCache(r.cache)
    /\ UNCHANGED <<before, dev_mode>>

\* send_request: the request to the endpoint is answered
request_response(t) ==
    LET c == task[t]
        call == Head(c.todo)
    IN
    /\ c.at = "request"
    /\ \E st \in Statuses : \E body \in (IF st = "ok" THEN Bodies(call) ELSE {NoBody}) :
        /\ log' = [log EXCEPT ![t] = Append(@, Entry(call.ep, call.data,
                                                     Logged(st, Parses(call, body))))]
        /\ dev_mode' = IF st = "ok" /\ call.fn = "set_is_on" THEN call.data.mode ELSE dev_mode
        /\ IF st = "ok"
           THEN LET r == OnReturn(c, body, Cache, _token, Len(log[t]) + 1)
                IN  /\ task' = [task EXCEPT ![t] = r.ctx]
                    /\ SetCache(r.cache)
                    /\ UNCHANGED _token
           ELSE IF ShouldRetry(st, c.retry)
           THEN /\ _token' = None
                /\ task' = [task EXCEPT ![t] = send_request(_token', c, c.retry - 1)]
                /\ UNCHANGED <<_is_on, _brightness, _is_available, _attributes>>
           ELSE LET r == OnRaise(c, st, Cache)
                IN  /\ task' = [task EXCEPT ![t] = r.ctx]
                    /\ SetCache(r.cache)
                    /\ UNCHANGED _token
    /\ UNCHANGED before

\* Somebody else (the vendor's app, the button) switches the device
DeviceChange ==
    /\ \E m \in DevModes \ {dev_mode} : dev_mode' = m
    /\ task' = [t \in Tasks |-> [task[t] EXCEPT !.commanded = "none"]]
    /\ UNCHANGED <<_token, _is_on, _brightness, _is_available, _attributes, log, before>>

\* One caller drives the entity: an operation starts when none is running
Update == Quiet /\ async_update(Poller)
TurnOn == Quiet /\ async_turn_on(Caller)
TurnOff == Quiet /\ async_turn_off(Caller)
SetBrightness == Quiet /\ set_brightness_call(Caller)
LoginAnswer == \E t \in Tasks : login_response(t)
VerifyAnswer == \E t \in Tasks : verify_response(t)
RequestAnswer == \E t \in Tasks : request_response(t)

Next ==
    \/ Update
    \/ TurnOn
    \/ TurnOff
    \/ SetBrightness
    \/ LoginAnswer
    \/ VerifyAnswer
    \/ RequestAnswer
    \/ DeviceChange

Spec == Init /\ [][Next]_vars

----------------------------------------------------------------------------
\* Reading the history

Commands == {"async_turn_on", "async_turn_off", "set_brightness"}

IsAuth(e) == e.ep \in {EP_LOGIN, EP_VERIFY}
IsReq(e) == ~IsAuth(e)

\* The HTTP calls of the send_request the coroutine is in, or was in last
Seg(t) == SubSeq(log[t], task[t].base + 1, Len(log[t]))
Reqs(s) == SelectSeq(s, IsReq)
Auths(s) == SelectSeq(s, IsAuth)

\* Every call of s was a request to an endpoint that the device accepted
AllAccepted(s) == \A i \in 1..Len(s) : IsReq(s[i]) /\ s[i].status = "ok"

Finished(t, op) == task[t].op = op /\ task[t].at = "done"

----------------------------------------------------------------------------
\* C1: a send_request whose endpoint answers 401 every time, its logins and
\* verifies succeeding, sends exactly two requests to the endpoint, authenticates
\* (login, then verify) between the first and the second, and raises the 401.
Always401(t) ==
    /\ task[t].at = "done"
    /\ Reqs(Seg(t)) # <<>>
    /\ \A i \in 1..Len(Seg(t)) :
          Seg(t)[i].status = (IF IsReq(Seg(t)[i]) THEN "e401" ELSE "ok")

C1_RetryOnceThenRaise ==
    \A t \in Tasks :
        Always401(t) =>
            LET seg == Seg(t)
                n == Len(seg)
            IN  /\ Len(Reqs(seg)) = 2
                /\ n >= 4
                /\ IsReq(seg[n - 3]) /\ seg[n - 2].ep = EP_LOGIN
                /\ seg[n - 1].ep = EP_VERIFY /\ IsReq(seg[n])
                /\ Len(Auths(seg)) \in {2, 4}
                /\ task[t].err = "e401"
                /\ task[t].op \in Commands => task[t].outcome = "raised"

C1_Witness ==
    \E t \in Tasks : Always401(t) /\ task[t].op = "async_turn_off" /\ Len(Seg(t)) = 4

----------------------------------------------------------------------------
----------------------------------------------------------------------------
\* C3: after a successful refresh, a refresh that fails at any of its three steps
\* leaves _is_on, _brightness and _attributes as they were before it, and sets
\* _is_available to false.
C3_FailedRefreshKeepsCache ==
    \A t \in Tasks :
        (Finished(t, "async_update") /\ task[t].err # "none" /\ before[t]._is_available) =>
            /\ _is_on = before[t]._is_on
            /\ _brightness = before[t]._brightness
            /\ _attributes = before[t]._attributes
            /\ _is_available = FALSE

----------------------------------------------------------------------------
\* C4: the stored token is absent after every 401 answer to a request of
\* send_request, also after the 401 that exhausts the retries.
C4_TokenClearedOnEvery401 ==
    \A t \in Tasks :
        (task[t].at = "done" /\ log[t] # <<>> /\ IsReq(log[t][Len(log[t])])
            /\ log[t][Len(log[t])].status = "e401") => _token = None

----------------------------------------------------------------------------
\* C5: _attributes never holds one of the keys 'code', 'copyright', 'mac'.
C5_NoHiddenAttributes == (DOMAIN _attributes) \cap {"code", "copyright", "mac"} = {}

\* A document carrying the three keys has been merged: only that document reports "Tree"
C5_Witness ==
    /\ ATTR_NAME \in DOMAIN _attributes
    /\ _attributes[ATTR_NAME] = "Tree"
    /\ \E t \in Tasks : Finished(t, "async_update") /\ task[t].err = "none"

----------------------------------------------------------------------------
\* C6: async_turn_on with a brightness that converts to 0 (0, 1 or 2 on the
\* 0..255 scale), the token held and the device accepting, makes exactly one
\* call: the mode write with mode "off".
TurnedOnWith(t, args) ==
    /\ Finished(t, "async_turn_on")
    /\ task[t].arg \in args
    /\ AllAccepted(log[t])

C6_ZeroBrightnessTurnsOff ==
    \A t \in Tasks :
        TurnedOnWith(t, {0, 1, 2}) => log[t] = <<Entry(EP_MODE, [mode |-> "off"], "ok")>>

C6_Witness == \E t \in Tasks : TurnedOnWith(t, {2}) /\ task[t].err = "none"

----------------------------------------------------------------------------
\* C7 as stated: async_turn_on with a non-zero brightness b, the token held and
\* the device accepting, makes two calls: the brightness write carrying b, then
\* the mode write with mode "movie".
C7_SendsSuppliedValue ==
    \A t \in Tasks :
        TurnedOnWith(t, 1..255) =>
            log[t] = <<Entry(EP_BRIGHTNESS, [value |-> task[t].arg, type |-> "A"], "ok"),
                       Entry(EP_MODE, [mode |-> "movie"], "ok")>>

\* C7 as amended: async_turn_on with a brightness b of 3..255 (one that does not
\* convert to 0), the token held and the device accepting, makes two calls: the
\* brightness write carrying b / 2.55 truncated (19 for 50), then the mode write
\* with mode "movie".
C7_SendsConvertedValue ==
    \A t \in Tasks :
        TurnedOnWith(t, 3..255) =>
            \E v \in 1..100 :
                /\ v * 255 <= task[t].arg * 100
                /\ task[t].arg * 100 < (v + 1) * 255
                /\ log[t] = <<Entry(EP_BRIGHTNESS, [value |-> v, type |-> "A"], "ok"),
                              Entry(EP_MODE, [mode |-> "movie"], "ok")>>

C7_Witness ==
    \E t \in Tasks :
        /\ TurnedOnWith(t, {50}) /\ task[t].err = "none"
        /\ log[t][1] = Entry(EP_BRIGHTNESS, [value |-> 19, type |-> "A"], "ok")

----------------------------------------------------------------------------
\* C8: async_update never raises: whatever fails in it, it returns to its caller,
\* with _is_available false.
C8_UpdateNeverRaises ==
    \A t \in Tasks :
        Finished(t, "async_update") =>
            /\ task[t].outcome = "returned"
            /\ task[t].err # "none" => _is_available = FALSE

\* A refresh failed by a timeout, which is no ClientResponseError, after one
\* that succeeded
C8_Witness ==
    \E t \in Tasks :
        /\ Finished(t, "async_update") /\ task[t].err = "timeout"
        /\ before[t]._is_available /\ ~_is_available

----------------------------------------------------------------------------
\* C9: auth stores the token T of the login answer, and only once the verify
\* call carrying T has succeeded; from then on every request to an endpoint
\* carries the stored token, which changes only when a request is answered 401.
Last(s) == s[Len(s)]
Answered(t) == Len(log'[t]) = Len(log[t]) + 1

C9_Carried ==
    \A t \in Tasks :
        /\ task[t].at = "request" =>
              /\ _token # None /\ task[t].hdr = _token
              /\ task[t].issued # None => task[t].hdr = task[t].issued
        /\ task[t].at = "verify" =>
              /\ _token = None /\ task[t].hdr = task[t].issued
              /\ Last(log[t]) = Entry(EP_LOGIN, CHALLENGE, "ok")

C9_Stored ==
    /\ (_token' # _token /\ _token' # None) =>
          \E t \in Tasks :
              /\ task[t].at = "verify" /\ Answered(t)
              /\ Last(log'[t]) = Entry(EP_VERIFY, NoData, "ok")
              /\ _token' = task[t].issued
    /\ (_token # None /\ _token' # _token) =>
          /\ _token' = None
          /\ \E t \in Tasks :
                task[t].at = "request" /\ Answered(t) /\ Last(log'[t]).status = "e401"
    /\ \A t \in Tasks :
          (task[t].at = "verify" /\ Answered(t) /\ Last(log'[t]).status = "ok") =>
              /\ _token' = task[t].issued
              /\ task'[t].at = "request" /\ task'[t].hdr = task[t].issued

C9_TokenVerifiedThenCarried == [](C9_Carried) /\ [][C9_Stored]_vars

\* The second call of an operation carries the token 2 its first call obtained
C9_Witness ==
    \E t \in Tasks :
        /\ task[t].at = "request" /\ task[t].base > 0
        /\ task[t].issued = 2 /\ task[t].hdr = 2 /\ _token = 2

----------------------------------------------------------------------------
\* C10: async_turn_on, async_turn_off and set_brightness leave _is_on,
\* _brightness, _is_available and _attributes as they were when the command
\* started, while it runs and after it has returned or raised.
C10_CommandsKeepCache ==
    \A t \in Tasks : task[t].op \in Commands => Cache = before[t]

\* A turn-on has succeeded on a device the cache knows as off
C10_Witness ==
    \E t \in Tasks :
        /\ Finished(t, "async_turn_on") /\ task[t].err = "none"
        /\ dev_mode = "movie" /\ _is_on = FALSE /\ _is_available = TRUE

----------------------------------------------------------------------------
\* C11 as stated: a command ends in an error whenever one of its outbound calls
\* or its authentication fails, and an async_turn_on whose brightness write fails
\* sends no mode write afterwards.
Failed(e) == e.status # "ok"

\* The mode write of an async_turn_on that also writes the brightness is sent (or
\* in flight) only after the brightness write was accepted
ModeAfterBrightness(t) ==
    (task[t].op = "async_turn_on" /\ task[t].arg # NoArg /\ task[t].arg >= 3) =>
        \A j \in 1..(Len(log[t]) + 1) :
            (IF j <= Len(log[t]) THEN log[t][j].ep = EP_MODE
             ELSE task[t].at = "request" /\ Head(task[t].todo).ep = EP_MODE)
            => \E i \in 1..(j - 1) : log[t][i].ep = EP_BRIGHTNESS /\ log[t][i].status = "ok"

C11_AnyFailedCallRaises ==
    \A t \in Tasks :
        /\ (task[t].op \in Commands /\ task[t].at = "done"
              /\ \E i \in 1..Len(log[t]) : Failed(log[t][i]))
           => task[t].outcome = "raised"
        /\ ModeAfterBrightness(t)

\* C11 as amended: a command ends in an error whenever its authentication fails or
\* one of its requests fails otherwise than by the first 401 of a send_request,
\* which send_request answers by re-authenticating and sending the request again;
\* the error is the one of the failed call, the failed call is the last the command
\* makes, and an async_turn_on whose brightness write fails sends no mode write.
Recovered(s, i) ==
    /\ IsReq(s[i]) /\ s[i].status = "e401"
    /\ i > 1 => ~(IsReq(s[i - 1]) /\ s[i - 1].ep = s[i].ep /\ Failed(s[i - 1]))
    /\ i > 2 => ~(s[i - 1].ep = EP_VERIFY /\ s[i - 2].ep = EP_LOGIN
                  /\ i > 3 /\ IsReq(s[i - 3]) /\ Failed(s[i - 3]))

C11_UnrecoveredFailureRaises ==
    \A t \in Tasks :
        /\ (task[t].op \in Commands /\ task[t].at = "done") =>
              LET s == log[t] IN
              /\ \A i \in 1..Len(s) : (Failed(s[i]) /\ ~Recovered(s, i)) =>
                    /\ i = Len(s)
                    /\ task[t].outcome = "raised"
                    /\ task[t].err = (IF s[i].status = "malformed" THEN "keyerror" ELSE s[i].status)
              /\ task[t].outcome = "returned" <=>
                    (task[t].err = "none" /\ task[t].todo = <<>> /\ ~Failed(Last(s)))
              /\ task[t].outcome \in {"returned", "raised"}
        /\ ModeAfterBrightness(t)

\* An async_turn_on with a brightness has raised the timeout of its brightness
\* write, the only call it made
C11_Witness ==
    \E t \in Tasks :
        /\ Finished(t, "async_turn_on") /\ task[t].arg = 50
        /\ task[t].outcome = "raised" /\ task[t].err = "timeout"
        /\ Len(log[t]) = 1 /\ log[t][1].ep = EP_BRIGHTNESS

----------------------------------------------------------------------------
\* C13: a login or verify call that fails is the last call of the operation: it
\* is not repeated, the 401 retry of send_request does not apply to it, the
\* request that needed the authentication is not sent, the token stays absent
\* and the error is the one the operation ends with.  An authentication is one
\* login, followed by one verify only when the login succeeded.
ErrorOf(e) == IF e.status = "malformed" THEN "keyerror" ELSE e.status

C13_AuthFailureNotRetried ==
    \A t \in Tasks :
        LET s == log[t] IN
        /\ \A i \in 1..Len(s) :
              /\ (IsAuth(s[i]) /\ Failed(s[i])) =>
                    /\ i = Len(s) /\ task[t].at = "done"
                    /\ _token = None
                    /\ task[t].err = ErrorOf(s[i])
                    /\ task[t].op \in Commands => task[t].outcome = "raised"
              /\ s[i].ep = EP_LOGIN =>
                    i = 1 \/ (IsReq(s[i - 1]) /\ s[i - 1].status \in {"ok", "e401"})
              /\ s[i].ep = EP_VERIFY => (i > 1 /\ s[i - 1] = Entry(EP_LOGIN, CHALLENGE, "ok"))
        /\ task[t].at = "verify" => (s # <<>> /\ Last(s) = Entry(EP_LOGIN, CHALLENGE, "ok"))
        /\ task[t].at = "request" => (s = <<>> \/ ~(IsAuth(Last(s)) /\ Failed(Last(s))))

\* The verify call of an async_turn_off answered 401: two calls, no request
C13_Witness ==
    \E t \in Tasks :
        /\ Finished(t, "async_turn_off") /\ task[t].err = "e401" /\ _token = None
        /\ log[t] = <<Entry(EP_LOGIN, CHALLENGE, "ok"), Entry(EP_VERIFY, NoData, "e401")>>

----------------------------------------------------------------------------
\* C14: the requests of one async_update are GETs in the order led/mode,
\* led/out/brightness, gestalt; the next endpoint is asked only after the
\* previous one answered and its answer was read, and a request is repeated
\* only after a 401.
Rank(ep) == IF ep = EP_MODE THEN 1 ELSE IF ep = EP_BRIGHTNESS THEN 2
            ELSE IF ep = EP_DEVICE_INFO THEN 3 ELSE 0

Follows(prev, ep) ==
    IF prev.status = "ok" THEN Rank(ep) = Rank(prev.ep) + 1
    ELSE prev.status = "e401" /\ ep = prev.ep

C14_ReadsInOrder ==
    \A t \in Tasks :
        task[t].op = "async_update" =>
            LET r == Reqs(log[t]) IN
            /\ \A i \in 1..Len(r) :
                  /\ r[i].data = NoData
                  /\ IF i = 1 THEN r[i].ep = EP_MODE ELSE Follows(r[i - 1], r[i].ep)
            /\ task[t].at = "request" =>
                  IF r = <<>> THEN Head(task[t].todo).ep = EP_MODE
                  ELSE Follows(Last(r), Head(task[t].todo).ep)
            /\ (task[t].at \in {"login", "verify"} /\ r # <<>>) =>
                  Follows(Last(r), Head(task[t].todo).ep)

\* The brightness read failed: the device-info read was not sent
C14_Witness ==
    \E t \in Tasks :
        /\ Finished(t, "async_update") /\ task[t].err = "e500"
        /\ Len(Reqs(log[t])) = 2
        /\ Reqs(log[t])[1] = Entry(EP_MODE, NoData, "ok")
        /\ Reqs(log[t])[2] = Entry(EP_BRIGHTNESS, NoData, "e500")

----------------------------------------------------------------------------
\* C15: a request answered by an error other than a 401 with retries left (another
\* HTTP status, a timeout, a 401 with the budget spent) is the last call of its
\* send_request: the error goes to the caller, the stored token stays as it is,
\* and the endpoint was asked once, or twice when the error answers the one retry.
C15_Failure(t) ==
    /\ task[t].at = "request" /\ Answered(t)
    /\ \/ Last(log'[t]).status \in {"e500", "timeout"}
       \/ Last(log'[t]).status = "e401" /\ task[t].retry = 0

C15_NotRetried ==
    \A t \in Tasks :
        C15_Failure(t) =>
            /\ _token' = _token
            /\ task'[t].at = "done"
            /\ task'[t].err = Last(log'[t]).status
            /\ task[t].op \in Commands => task'[t].outcome = "raised"
            /\ Len(Reqs(SubSeq(log'[t], task[t].base + 1, Len(log'[t]))))
                  = (IF task[t].retry = DefaultRetry THEN 1 ELSE 2)

C15_OtherErrorsNotRetried == [][C15_NotRetried]_vars

\* A request with a held token was answered 500: one call, the token kept
C15_Witness ==
    \E t \in Tasks :
        /\ Finished(t, "async_turn_off") /\ task[t].err = "e500"
        /\ log[t] = <<Entry(EP_MODE, [mode |-> "off"], "e500")>>
        /\ _token # None

----------------------------------------------------------------------------
\* The transport answers every call it was handed: each HTTP call completes or fails
Fairness ==
    \A t \in Tasks :
        /\ WF_vars(login_response(t))
        /\ WF_vars(verify_response(t))
        /\ WF_vars(request_response(t))

\* The caller's commands, one at a time, on a transport that answers: the runs in
\* which send_request is followed to its end (the refresh calls the same send_request)
NextCommands ==
    \/ TurnOn
    \/ TurnOff
    \/ SetBrightness
    \/ LoginAnswer
    \/ VerifyAnswer
    \/ RequestAnswer

SpecFair == Init /\ [][NextCommands]_vars /\ Fairness

\* C18: every send_request ends, by returning to its caller or by raising, once the
\* transport has answered its calls; until then it has sent at most two requests
\* to its endpoint, two login calls and two verify calls, and its retry budget
\* never goes below zero.
Count(s, P(_)) == Cardinality({i \in 1..Len(s) : P(s[i])})
IsLogin(e) == e.ep = EP_LOGIN
IsVerify(e) == e.ep = EP_VERIFY

C18_Bounded ==
    \A t \in Tasks :
        /\ Count(Seg(t), IsReq) <= DefaultRetry + 1
        /\ Count(Seg(t), IsLogin) <= DefaultRetry + 1
        /\ Count(Seg(t), IsVerify) <= DefaultRetry + 1
        /\ task[t].retry \in 0..DefaultRetry
        /\ \A i, j \in 1..Len(Reqs(Seg(t))) :
              /\ Reqs(Seg(t))[i].ep = Reqs(Seg(t))[j].ep
              /\ Reqs(Seg(t))[i].data = Reqs(Seg(t))[j].data

InSend(t, n) == ~Idle(t) /\ Len(task[t].todo) = n

C18_SendRequestTerminates ==
    /\ [](C18_Bounded)
    /\ \A t \in Tasks : \A n \in 1..Len(UpdatePlan) :
          InSend(t, n) ~> (task[t].at = "done" \/ Len(task[t].todo) < n)

\* A send_request that used everything: request 401, login, verify, request
C18_Witness ==
    \E t \in Tasks :
        /\ task[t].at = "done"
        /\ Count(Seg(t), IsReq) = 2
        /\ Count(Seg(t), IsLogin) = 2
        /\ Count(Seg(t), IsVerify) = 2

----------------------------------------------------------------------------
\* The step in which coroutine t read the device-info answer and merged it
Merged(t) ==
    /\ Answered(t)
    /\ Last(log'[t]) = Entry(EP_DEVICE_INFO, NoData, "ok")

\* C12: a configured (non-empty) name is the display name, always.  Without one
\* the display name of a new entity is the default, and it changes only when a
\* refresh has fetched a device-info document that reports device_name, to the
\* name reported; a document without device_name leaves it as it was.
C12_Configured == \A n \in Names : Truthy(n) => name(n, _attributes) = n

C12_Reported ==
    \A n \in Names \ {c \in Names : Truthy(c)} :
        IF \E t \in Tasks : Merged(t) /\ ATTR_NAME \in DOMAIN task'[t].fetched
        THEN \E t \in Tasks : /\ Merged(t)
                              /\ name(n, _attributes') = task'[t].fetched[ATTR_NAME]
        ELSE name(n, _attributes') = name(n, _attributes)

C12_DisplayName ==
    /\ \A n \in Names : ~Truthy(n) => name(n, _attributes) = DEFAULT_NAME
    /\ [](C12_Configured)
    /\ [][C12_Reported]_vars

\* "Star" was reported, and a later refresh fetched a document without device_name
C12_Witness ==
    \E t \in Tasks :
        /\ Finished(t, "async_update") /\ task[t].err = "none"
        /\ ATTR_NAME \notin DOMAIN task[t].fetched /\ task[t].fetched # NoDoc
        /\ name(NoName, _attributes) = "Star"
        /\ name("Xmas", _attributes) = "Xmas"

----------------------------------------------------------------------------
\* C16: when a refresh that followed a successful async_turn_on or async_turn_off
\* returns without an error, and nothing else has switched the device since the
\* command, the cached _is_on is the power state the command asked for.
C16_RefreshReconciles ==
    \A t \in Tasks :
        (Finished(t, "async_update") /\ task[t].err = "none" /\ task[t].commanded # "none")
            => (_is_on <=> task[t].commanded = "on")

\* The cache said off, the command switched the device on, the refresh shows on
C16_Witness ==
    \E t \in Tasks :
        /\ Finished(t, "async_update") /\ task[t].err = "none"
        /\ task[t].commanded = "on"
        /\ ~before[t]._is_on /\ _is_on

----------------------------------------------------------------------------
\* C17: no step removes a key of _attributes and the host key is always there; the
\* step that merges a fetched device-info document leaves every key of it that is
\* not hidden with the fetched value and every other key as it was, and no other
\* step changes _attributes.
C17_Step ==
    /\ DOMAIN _attributes \subseteq DOMAIN _attributes'
    /\ IF \E t \in Tasks : Merged(t)
       THEN \A t \in Tasks : Merged(t) =>
               LET doc == task'[t].fetched
                   shown == {k \in DOMAIN doc : k \notin HIDDEN_ATTR}
               IN  /\ \A k \in shown : k \in DOMAIN _attributes' /\ _attributes'[k] = doc[k]
                   /\ \A k \in DOMAIN _attributes \ shown : _attributes'[k] = _attributes[k]
       ELSE _attributes' = _attributes

C17_AttributesOnlyGrow ==
    /\ [](ATTR_HOST \in DOMAIN _attributes)
    /\ [][C17_Step]_vars

\* After "Tree", a refresh fetched the "Star" document: the name is overwritten,
\* uuid is new, host is still there
C17_Witness ==
    \E t \in Tasks :
        /\ Finished(t, "async_update") /\ task[t].err = "none"
        /\ ATTR_NAME \in DOMAIN before[t]._attributes
        /\ before[t]._attributes[ATTR_NAME] = "Tree"
        /\ task[t].fetched \in GestaltDocs /\ ATTR_NAME \in DOMAIN task[t].fetched
        /\ task[t].fetched[ATTR_NAME] = "Star"
        /\ DOMAIN _attributes = {ATTR_HOST, ATTR_NAME, "uuid"}
        /\ _attributes[ATTR_NAME] = "Star"

----------------------------------------------------------------------------
\* Two coroutines on one entity.  The event loop runs one coroutine at a time and
\* switches only where a coroutine awaits the network, so the steps are the same
\* as before; what changes is that an operation may start while another is waiting.

\* Coroutine t, which has not run yet, enters an operation (no history is dropped)
Launch(t, c) ==
    /\ task[t].at = "idle"
    /\ task' = [task EXCEPT ![t] = send_request(_token, c, DefaultRetry)]
    /\ before' = [before EXCEPT ![t] = Cache]
    /\ UNCHANGED <<_token, _is_on, _brightness, _is_available, _attributes, log, dev_mode>>

\* The platform's poll and a service call, in any order and overlapping
PollerUpdate == Launch(Poller, NewCtx("async_update", NoArg, UpdatePlan))
CallerTurnOff == Launch(Caller, NewCtx("async_turn_off", NoArg, <<set_is_on(FALSE)>>))

NextConc ==
    \/ PollerUpdate
    \/ CallerTurnOff
    \/ LoginAnswer
    \/ VerifyAnswer
    \/ RequestAnswer

\* One refresh and one command on a new entity, in every interleaving
SpecConc == Init /\ [][NextConc]_vars

\* C19: in every interleaving of a refresh and a command, a request to an endpoint
\* carries a token: the header is the stored token at the moment the request is
\* sent, and a token is stored only by the step that sees the verify call of that
\* very token succeed, the token having come from the login answer.
C19_Sent ==
    \A t \in Tasks :
        /\ task[t].at = "request" => task[t].hdr \in Tokens
        /\ task[t].at = "verify" => (task[t].hdr \in Tokens /\ task[t].hdr = task[t].issued)

C19_Step ==
    /\ \A t \in Tasks :
          (task'[t].at = "request" /\ (Answered(t) \/ Idle(t))) =>
              (task'[t].hdr = _token' /\ _token' \in Tokens)
    /\ (_token' # _token /\ _token' # None) =>
          \E t \in Tasks :
              /\ task[t].at = "verify" /\ Answered(t)
              /\ Last(log'[t]) = Entry(EP_VERIFY, NoData, "ok")
              /\ _token' = task[t].hdr

C19_NoRequestWithoutToken == [](C19_Sent) /\ [][C19_Step]_vars

\* One coroutine's request is in flight with token 1 while the other, answered 401,
\* has cleared the stored token and is logging in again
C19_Witness ==
    \E t, u \in Tasks :
        /\ t # u
        /\ task[t].at = "request" /\ task[t].hdr = 1
        /\ task[u].at = "login" /\ log[u] # <<>> /\ Last(log[u]).status = "e401"
        /\ _token = None

====
